---- MODULE Spec2Model ----
(***************************************************************************)
(* Clay analytics dashboard: the enrichment functions of DataProcessor     *)
(* (utils/data_processor.py) and the session filter state of               *)
(* InteractiveManager (utils/interactive_manager.py), with the decision    *)
(* makers page of DashboardPages (components/dashboard_pages.py).          *)
(*                                                                         *)
(* A Python str is a tuple of one-character strings, so that lower(),      *)
(* substring tests and the State regular expression are computed           *)
(* character by character.  A value that is not a str (NaN, None) is a     *)
(* one-element tuple whose element is not a single character.              *)
(***************************************************************************)
EXTENDS Integers, Sequences, FiniteSets, TLC

\* ------------------------------------------------------------------------
\* Bounds
\* ------------------------------------------------------------------------
MaxRows == 2        \* rows of an input table
MaxTokens == 3      \* tokens concatenated into a job title or a location
MaxMissing == 1     \* missing cells of a row (besides the all-missing row)
MaxIndustries == 9  \* distinct industries of a companies table

\* ------------------------------------------------------------------------
\* String literals
\* ------------------------------------------------------------------------
NaN == <<"NaN">>                 \* a missing cell (numpy.nan / pd.NA)
None == <<"None">>               \* Python None
EmptyStr == <<>>                 \* ""

s_All == <<"A", "l", "l">>
s_Unknown == <<"U", "n", "k", "n", "o", "w", "n">>
s_Other == <<"O", "t", "h", "e", "r">>
s_Construction == <<"C", "o", "n", "s", "t", "r", "u", "c", "t", "i", "o", "n">>
s_Software == <<"S", "o", "f", "t", "w", "a", "r", "e">>
s_Small == <<"S", "m", "a", "l", "l">>
s_Large == <<"L", "a", "r", "g", "e">>
s_Acme == <<"A", "c", "m", "e">>
s_Beta == <<"B", "e", "t", "a">>
s_acme == <<"a", "c", "m", "e">>
s_ACME == <<"A", "C", "M", "E">>
s_BetaInc == <<"B", "e", "t", "a", " ", "I", "n", "c">>
s_Gamma == <<"G", "a", "m", "m", "a">>
s_CLevel == <<"C", "-", "L", "e", "v", "e", "l", "/", "P", "r", "i", "n", "c", "i", "p", "a", "l">>
s_VPDirector == <<"V", "P", "/", "D", "i", "r", "e", "c", "t", "o", "r">>
s_ManagerSenior == <<"M", "a", "n", "a", "g", "e", "r", "/", "S", "e", "n", "i", "o", "r">>
s_UnitedStates == <<"U", "n", "i", "t", "e", "d", " ", "S", "t", "a", "t", "e", "s">>
s_Canada == <<"C", "a", "n", "a", "d", "a">>
s_UnitedKingdom == <<"U", "n", "i", "t", "e", "d", " ", "K", "i", "n", "g", "d", "o", "m">>
s_India == <<"I", "n", "d", "i", "a">>
s_Indiana == <<"I", "n", "d", "i", "a", "n", "a">>
s_united_states == <<"u", "n", "i", "t", "e", "d", " ", "s", "t", "a", "t", "e", "s">>
s_ceo == <<"c", "e", "o">>
s_president == <<"p", "r", "e", "s", "i", "d", "e", "n", "t">>
s_founder == <<"f", "o", "u", "n", "d", "e", "r">>
s_owner == <<"o", "w", "n", "e", "r">>
s_principal == <<"p", "r", "i", "n", "c", "i", "p", "a", "l">>
s_vp == <<"v", "p">>
s_vice_president == <<"v", "i", "c", "e", " ", "p", "r", "e", "s", "i", "d", "e", "n", "t">>
s_director == <<"d", "i", "r", "e", "c", "t", "o", "r">>
s_head == <<"h", "e", "a", "d">>
s_manager == <<"m", "a", "n", "a", "g", "e", "r">>
s_lead == <<"l", "e", "a", "d">>
s_senior == <<"s", "e", "n", "i", "o", "r">>
s_CEO == <<"C", "E", "O">>
s_Senior == <<"S", "e", "n", "i", "o", "r">>
s_Manager == <<"M", "a", "n", "a", "g", "e", "r">>
s_Intern == <<"I", "n", "t", "e", "r", "n">>
s_Vice == <<"V", "i", "c", "e">>
s_President == <<"P", "r", "e", "s", "i", "d", "e", "n", "t">>
s_Director == <<"D", "i", "r", "e", "c", "t", "o", "r">>
s_VP == <<"V", "P">>
s_Head == <<"H", "e", "a", "d">>
s_Founder == <<"F", "o", "u", "n", "d", "e", "r">>
s_Austin == <<"A", "u", "s", "t", "i", "n">>
s_TX == <<"T", "X">>
s_DC == <<"D", ".", "C", ".">>
s_Remote == <<"R", "e", "m", "o", "t", "e">>
s_na == <<"n", "a">>
s_comma == <<",">>
s_commasp == <<",", " ">>
s_sp == <<" ">>
s_AustinTX == <<"A", "u", "s", "t", "i", "n", ",", " ", "T", "X">>
s_JaneDoe == <<"J", "a", "n", "e", " ", "D", "o", "e">>
s_PrivatelyHeld == <<"P", "r", "i", "v", "a", "t", "e", "l", "y", " ", "H", "e", "l", "d">>
s_url == <<"l", "n", "k", "d", ".", "i", "n", "/", "a">>
s_domain == <<"a", "c", "m", "e", ".", "c", "o", "m">>
s_Engineer == <<"E", "n", "g", "i", "n", "e", "e", "r">>

\* ------------------------------------------------------------------------
\* Python str primitives
\* ------------------------------------------------------------------------
UpperCase == <<"A","B","C","D","E","F","G","H","I","J","K","L","M",
               "N","O","P","Q","R","S","T","U","V","W","X","Y","Z">>
LowerCase == <<"a","b","c","d","e","f","g","h","i","j","k","l","m",
               "n","o","p","q","r","s","t","u","v","w","x","y","z">>

IsUpper(c) == \E i \in 1..26 : UpperCase[i] = c
IsLetter(c) == \E i \in 1..26 : UpperCase[i] = c \/ LowerCase[i] = c
IsSpace(c) == c = " "

\* str.lower() of one character
LowerChar(c) ==
    IF IsUpper(c) THEN LowerCase[CHOOSE i \in 1..26 : UpperCase[i] = c] ELSE c

\* str.lower()
Lower(s) == [i \in 1..Len(s) |-> LowerChar(s[i])]

\* "word in s": word occurs as a contiguous substring of s
Contains(s, word) ==
    \E p \in 0..(Len(s) - Len(word)) :
        \A i \in 1..Len(word) : s[p + i] = word[i]

\* pd.isna(v)
IsNa(v) == v = NaN \/ v = None

\* bool(v) for the values that occur as filter values
Truthy(v) == v # None /\ v # EmptyStr

\* Series.fillna(value) on one cell
fillna(v, value) == IF IsNa(v) THEN value ELSE v

\* Series.notna() on one cell
notna(v) == ~IsNa(v)

\* concatenation of a tuple of strings
RECURSIVE Concat(_)
Concat(parts) ==
    IF parts = <<>> THEN <<>> ELSE Head(parts) \o Concat(Tail(parts))

\* all tuples over S of length at most n
SeqsUpTo(S, n) == UNION {[1..k -> S] : k \in 0..n}

\* ------------------------------------------------------------------------
\* State
\* ------------------------------------------------------------------------
VARIABLES
    session_state,        \* st.session_state: key -> value
    companies_df,         \* enriched companies table held by the run
    decision_makers_df,   \* enriched decision makers table held by the run
    last,                 \* the most recent InteractiveManager / page call
    raw,                  \* a raw table as read from its CSV file
    clean,                \* outcome of the preprocess_* call on raw
    chart,                \* industry_counts handed to the companies page chart
    disk,                 \* the three CSV files under data/
    cache,                \* st.cache_data entry of load_data_files
    reads,                \* reads of the files since the cache was last cleared
    sessions,             \* per browser session: st.session_state and the screen
    actor                 \* the session whose script ran last, and what it did

vars == <<session_state, companies_df, decision_makers_df, last, raw, clean,
          chart, disk, cache, reads, sessions, actor>>

\* the state of the running application
appvars == <<disk, cache, reads, sessions, actor>>

\* ------------------------------------------------------------------------
\* dict primitives
\* ------------------------------------------------------------------------
EmptyDict == [k \in {} |-> NaN]

DictSet(d, k, v) == [x \in (DOMAIN d) \cup {k} |-> IF x = k THEN v ELSE d[x]]

DictDel(d, k) == [x \in (DOMAIN d) \ {k} |-> d[x]]

\* ------------------------------------------------------------------------
\* InteractiveManager (utils/interactive_manager.py)
\* ------------------------------------------------------------------------
SelectedKeys == {"selected_industry", "selected_size", "selected_location",
                 "selected_seniority", "selected_job_title"}

initialize_session_state_reset(ss) ==
    [k \in (DOMAIN ss) \cup {"filters"} \cup SelectedKeys |->
        IF k = "filters" THEN EmptyDict
        ELSE IF k \in DOMAIN ss THEN ss[k] ELSE None]

\* initialize_session_state: every key is created only when it is missing
initialize_session_state(ss) ==
    [k \in (DOMAIN ss) \cup {"filters"} \cup SelectedKeys |->
        IF k \in DOMAIN ss THEN ss[k]
        ELSE IF k = "filters" THEN EmptyDict ELSE None]

add_filter_dropall(filters, filter_name, filter_value) ==
    IF filter_value = s_All THEN DictDel(filters, filter_name)
    ELSE DictSet(filters, filter_name, filter_value)

\* add_filter: st.session_state.filters[filter_name] = filter_value
add_filter(filters, filter_name, filter_value) ==
    DictSet(filters, filter_name, filter_value)

remove_filter_all(filters, filter_name) ==
    IF filter_name \in DOMAIN filters THEN EmptyDict ELSE filters

\* remove_filter: del st.session_state.filters[filter_name] when present
remove_filter(filters, filter_name) ==
    IF filter_name \in DOMAIN filters THEN DictDel(filters, filter_name)
    ELSE filters

\* clear_all_filters: filters = {} and the five selected_* fields = None
clear_all_filters(ss) ==
    [k \in DOMAIN ss |->
        IF k = "filters" THEN EmptyDict
        ELSE IF k \in SelectedKeys THEN None ELSE ss[k]]

\* get_active_filters: a copy of the mapping
get_active_filters(ss) == ss["filters"]

SelectRows_slice(df, column_name, filter_value) ==
    LET kept == SelectSeq(df, LAMBDA row : row[column_name] = filter_value)
    IN  IF kept = <<>> THEN kept ELSE SubSeq(kept, 1, Len(kept) - 1)

SelectRows_ne(df, column_name, filter_value) ==
    SelectSeq(df, LAMBDA row : row[column_name] # filter_value)

\* filtered_df[filtered_df[column_name] == filter_value]
SelectRows(df, column_name, filter_value) ==
    SelectSeq(df, LAMBDA row : row[column_name] = filter_value)

\* the for-loop of apply_filters_to_dataframe over filter_config.items()
RECURSIVE ApplyLoop(_, _, _)
ApplyLoop(filtered_df, items, filters) ==
    IF items = <<>> THEN filtered_df
    ELSE LET filter_name == items[1][1]
             column_name == items[1][2]
             step == IF filter_name \in DOMAIN filters
                        /\ Truthy(filters[filter_name])
                        /\ filters[filter_name] # s_All
                     THEN SelectRows(filtered_df, column_name, filters[filter_name])
                     ELSE filtered_df
         IN  ApplyLoop(step, Tail(items), filters)

apply_filters_inplace(df, filter_config, filters) ==
    [df          |-> ApplyLoop(df, filter_config, filters),
     filters     |-> filters,
     filtered_df |-> ApplyLoop(df, filter_config, filters)]

\* apply_filters_to_dataframe: works on df.copy(); the record holds the
\* argument table and the session mapping as they are when the call returns,
\* and the returned table
apply_filters_to_dataframe(df, filter_config, filters) ==
    [df          |-> df,
     filters     |-> filters,
     filtered_df |-> ApplyLoop(df, filter_config, filters)]

\* df[column].unique() as a set
Unique(df, column) == {df[i][column] : i \in 1..Len(df)}

\* ------------------------------------------------------------------------
\* Inputs of the filter engine
\* ------------------------------------------------------------------------
FilterNames == {"Industry", "Company Size"}

FilterValues == {s_All, EmptyStr, None, s_Construction, s_Small}

\* filter_config dictionaries (filter name -> column), in insertion order
FilterConfigs ==
    { <<>>,
      << <<"Industry", "Primary Industry">> >>,
      << <<"Company Size", "Size">> >>,
      << <<"Industry", "Primary Industry">>, <<"Company Size", "Size">> >> }

\* a row of an enriched companies table (the columns the filters read)
CompanyRow(name, industry, size) ==
    ("Name" :> name) @@ ("Primary Industry" :> industry) @@ ("Size" :> size)

\* two industries and two sizes, under two company names
CompanyRows ==
    { CompanyRow(s_Acme, s_Construction, s_Small),
      CompanyRow(s_Beta, s_Construction, s_Large),
      CompanyRow(s_Beta, s_Software, s_Small) }

\* tables with a company whose industry is literally "All" and whose size
\* is the empty string
LiteralTables ==
    LET literal == CompanyRow(s_Gamma, s_All, EmptyStr)
        other == CompanyRow(s_Acme, s_Construction, s_Small)
    IN  { <<literal>>, <<literal, other>>, <<other, literal>> }

\* a row of an enriched decision makers table
DecisionMakerRow(company) ==
    ("Full Name" :> s_JaneDoe) @@ ("Job Title" :> s_CEO) @@
    ("Company" :> company) @@ ("Location" :> s_AustinTX) @@
    ("LinkedIn URL" :> s_url)

\* decision makers: one row per spelling of a company name
DecisionMakersSample ==
    << DecisionMakerRow(s_acme), DecisionMakerRow(s_ACME),
       DecisionMakerRow(s_BetaInc), DecisionMakerRow(s_Beta),
       DecisionMakerRow(s_Gamma) >>

\* the record kept in `last`: the call, its arguments and what it returned;
\* reapplied: the argument table is the result of the previous call with the
\* same filter_config; present: filter_name was in the mapping at the call
NoCall ==
    [ op |-> "none", filter_name |-> "", column |-> "", filter_value |-> NaN,
      filter_config |-> <<>>, df |-> <<>>, df_after |-> <<>>,
      result |-> <<>>, reapplied |-> FALSE, present |-> FALSE ]

NoTable == [kind |-> "none", df |-> <<>>]
\* pandas NaT: a missing timestamp
NaT == [na |-> TRUE, month |-> 0, day |-> 0, hour |-> 0, minute |-> 0]

\* no preprocess_* call has been made
NotRun ==
    [status |-> "none", df |-> <<>>, arg |-> <<>>, now |-> NaT,
     normalised |-> TRUE]

\* no chart has been drawn
NoChart == [drawn |-> FALSE, counts |-> <<>>]

\* the browser sessions connected to the server process
Sessions == {"A", "B"}

\* a table that was not loaded (None), and a file that cannot be read
NoneFrame == [is_none |-> TRUE, columns |-> {}, rows |-> <<>>]
Unreadable == [readable |-> FALSE, columns |-> {}, rows |-> <<>>]

Kinds == {"companies", "decision_makers", "jobs"}

\* load_data_files' failure value (None, None, None)
NoneTriple == [k \in Kinds |-> NoneFrame]

\* the st.cache_data entry before the first call and after a clear
EmptyCache == [filled |-> FALSE, value |-> NoneTriple]

\* a session whose script has not run yet
NewSession ==
    [session_state |-> [k \in {} |-> <<>>], loaded |-> NoneTriple, events |-> <<>>,
     enriched |-> NoneTriple, shown |-> NoneTriple]

NoActor == [session |-> "", op |-> "none"]

\* the application is not running
AppIdle ==
    /\ disk = [k \in Kinds |-> Unreadable]
    /\ cache = EmptyCache
    /\ reads = 0
    /\ sessions = [s \in Sessions |-> NewSession]
    /\ actor = NoActor

\* ------------------------------------------------------------------------
\* DashboardPages (components/dashboard_pages.py)
\* ------------------------------------------------------------------------
DisplayColumns == {"Full Name", "Job Title", "Company", "Location", "LinkedIn URL"}

\* _render_decision_makers_data_table: the rows handed to st.dataframe
render_decision_makers_data_table(dm_df) ==
    [i \in 1..Len(dm_df) |-> [c \in DisplayColumns |-> dm_df[i][c]]]

\* render_decision_makers_page(decision_makers_df, companies_df): charts and
\* table are drawn from decision_makers_df; companies_df is not read
render_decision_makers_page(dm_df, co_df) ==
    render_decision_makers_data_table(dm_df)

\* ------------------------------------------------------------------------
\* Actions of a session
\* ------------------------------------------------------------------------
Ready == "filters" \in DOMAIN session_state

filters == session_state["filters"]

SetFilters(f) == [session_state EXCEPT !["filters"] = f]

\* DashboardPages.__init__ on every run of the script
InitializeSessionState ==
    /\ session_state' = initialize_session_state(session_state)
    /\ last' = [NoCall EXCEPT !.op = "initialize_session_state"]
    /\ UNCHANGED <<companies_df, decision_makers_df, raw, clean>>
    /\ UNCHANGED <<chart, disk, cache, reads, sessions, actor>>

AddFilter(filter_name, filter_value) ==
    /\ Ready
    /\ session_state' = SetFilters(add_filter(filters, filter_name, filter_value))
    /\ last' = [NoCall EXCEPT !.op = "add_filter",
                              !.filter_name = filter_name,
                              !.filter_value = filter_value]
    /\ UNCHANGED <<companies_df, decision_makers_df, raw, clean>>
    /\ UNCHANGED <<chart, disk, cache, reads, sessions, actor>>

RemoveFilter(filter_name) ==
    /\ Ready
    /\ session_state' = SetFilters(remove_filter(filters, filter_name))
    /\ last' = [NoCall EXCEPT !.op = "remove_filter",
                              !.filter_name = filter_name,
                              !.present = (filter_name \in DOMAIN filters)]
    /\ UNCHANGED <<companies_df, decision_makers_df, raw, clean>>
    /\ UNCHANGED <<chart, disk, cache, reads, sessions, actor>>

ClearAllFilters ==
    /\ Ready
    /\ session_state' = clear_all_filters(session_state)
    /\ last' = [NoCall EXCEPT !.op = "clear_all_filters"]
    /\ UNCHANGED <<companies_df, decision_makers_df, raw, clean>>
    /\ UNCHANGED <<chart, disk, cache, reads, sessions, actor>>

\* create_manual_filter_controls(df, column, filter_name) on the companies
\* table; selected_value is the option picked in the selectbox
CreateManualFilterControls(column, filter_name, selected_value) ==
    /\ Ready
    /\ selected_value \in {s_All} \cup Unique(companies_df, column)
    /\ session_state' =
         SetFilters(IF selected_value = s_All
                    THEN remove_filter(filters, filter_name)
                    ELSE IF selected_value # s_All
                         THEN add_filter(filters, filter_name, selected_value)
                         ELSE filters)
    /\ last' = [NoCall EXCEPT !.op = "create_manual_filter_controls",
                              !.filter_name = filter_name,
                              !.column = column,
                              !.filter_value = selected_value]
    /\ UNCHANGED <<companies_df, decision_makers_df, raw, clean>>
    /\ UNCHANGED <<chart, disk, cache, reads, sessions, actor>>

\* apply_filters_to_dataframe on the companies table (src = "companies_df")
\* or on the table returned by the previous call (src = "result")
ApplyFilters(src, filter_config) ==
    /\ Ready
    /\ src = "result" => last.op = "apply_filters_to_dataframe"
    /\ LET df == IF src = "result" THEN last.result ELSE companies_df
           r  == apply_filters_to_dataframe(df, filter_config, filters)
       IN  /\ session_state' = SetFilters(r.filters)
           /\ companies_df' = IF src = "result" THEN companies_df ELSE r.df
           /\ last' = [NoCall EXCEPT !.op = "apply_filters_to_dataframe",
                                     !.filter_config = filter_config,
                                     !.df = df,
                                     !.df_after = r.df,
                                     !.result = r.filtered_df,
                                     !.reapplied = (src = "result"
                                         /\ last.filter_config = filter_config)]
    /\ UNCHANGED <<decision_makers_df, raw, clean>>
    /\ UNCHANGED <<chart, disk, cache, reads, sessions, actor>>

\* tab3 of ClayDashboard.run
RenderDecisionMakersPage ==
    /\ Ready
    /\ last' = [NoCall EXCEPT !.op = "render_decision_makers_page",
                              !.df = decision_makers_df,
                              !.result = render_decision_makers_page(
                                             decision_makers_df, companies_df)]
    /\ UNCHANGED <<session_state, companies_df, decision_makers_df, raw, clean>>
    /\ UNCHANGED <<chart, disk, cache, reads, sessions, actor>>

InitFilter ==
    /\ session_state = EmptyDict
    /\ companies_df \in SeqsUpTo(CompanyRows, MaxRows) \cup LiteralTables
    /\ decision_makers_df = DecisionMakersSample
    /\ last = NoCall
    /\ raw = NoTable
    /\ clean = NotRun
    /\ chart = NoChart
    /\ AppIdle

NextFilter ==
    \/ InitializeSessionState
    \/ \E n \in FilterNames, v \in FilterValues : AddFilter(n, v)
    \/ \E n \in FilterNames : RemoveFilter(n)
    \/ ClearAllFilters
    \/ \E item \in {<<"Industry", "Primary Industry">>, <<"Company Size", "Size">>},
          v \in {s_All, EmptyStr, s_Construction, s_Software, s_Small, s_Large} :
            CreateManualFilterControls(item[2], item[1], v)
    \/ \E src \in {"companies_df", "result"}, cfg \in FilterConfigs :
            ApplyFilters(src, cfg)
    \/ RenderDecisionMakersPage

SpecFilter == InitFilter /\ [][NextFilter]_vars

\* ------------------------------------------------------------------------
\* Properties of the filter engine
\* ------------------------------------------------------------------------
Applied == last.op = "apply_filters_to_dataframe"

\* a stored value that constrains rows: neither falsy nor "All"
Effective(v) == v # EmptyStr /\ v # None /\ v # s_All

\* the filter names of a filter_config
ConfigNames(cfg) == {cfg[k][1] : k \in 1..Len(cfg)}

\* row satisfies every active filter named in cfg
MatchesActive(row, cfg, f) ==
    \A k \in 1..Len(cfg) :
        cfg[k][1] \in DOMAIN f => row[cfg[k][2]] = f[cfg[k][1]]

\* row satisfies every active filter named in cfg whose value is effective
MatchesEffective(row, cfg, f) ==
    \A k \in 1..Len(cfg) :
        (cfg[k][1] \in DOMAIN f /\ Effective(f[cfg[k][1]]))
            => row[cfg[k][2]] = f[cfg[k][1]]

\* C1 as claimed: the table returned by apply_filters_to_dataframe holds, in
\* input order, exactly the input rows that equal the filter value in the
\* mapped column for every active filter named in filter_config.
C1_AllActiveFiltersConstrain ==
    Applied =>
        last.result = SelectSeq(last.df,
            LAMBDA row : MatchesActive(row, last.filter_config, filters))

\* C1 amended: the table returned by apply_filters_to_dataframe holds, in
\* input order, exactly the input rows that equal the filter value in the
\* mapped column for every active filter named in filter_config whose value
\* is neither falsy nor "All"; filters not named in filter_config, or with
\* such a value, are disregarded, and with no constraining filter the result
\* equals the input.
C1_EffectiveFiltersConstrain ==
    Applied =>
        /\ last.result = SelectSeq(last.df,
               LAMBDA row : MatchesEffective(row, last.filter_config, filters))
        /\ (\A n \in ConfigNames(last.filter_config) :
                n \in DOMAIN filters => ~Effective(filters[n]))
             => last.result = last.df

\* C1 witness: two constraining filters applied together kept some rows
\* and dropped others, while a call with no relevant filter is also possible
C1_Witness ==
    /\ Applied
    /\ Len(last.filter_config) = 2
    /\ \A n \in ConfigNames(last.filter_config) :
          n \in DOMAIN filters /\ Effective(filters[n])
    /\ Len(last.result) > 0
    /\ Len(last.result) < Len(last.df)

\* the designated company filters and their columns
CompanyFilterConfig ==
    << <<"Industry", "Primary Industry">>, <<"Company Size", "Size">> >>

\* names, lower-cased, of the companies that survive the active filters
SurvivingNames ==
    { Lower(companies_df[i]["Name"]) :
        i \in { j \in 1..Len(companies_df) :
                  MatchesEffective(companies_df[j], CompanyFilterConfig, filters) } }

\* C2 as claimed: when a designated company filter constrains the companies
\* (here with at least one company surviving), the decision makers page
\* shows exactly the decision makers whose Company equals,
\* case-insensitively, the name of a surviving company.
C2_CrossFilter ==
    ( /\ last.op = "render_decision_makers_page"
      /\ \E n \in ConfigNames(CompanyFilterConfig) :
            n \in DOMAIN filters /\ Effective(filters[n])
      /\ SurvivingNames # {} )
    => last.result = render_decision_makers_data_table(
           SelectSeq(decision_makers_df,
               LAMBDA row : Lower(row["Company"]) \in SurvivingNames))

\* C3: applying the filters to the table returned by the previous call, with
\* the same filter_config and the same filter mapping, returns that table.
C3_Idempotent ==
    (Applied /\ last.reapplied) => last.result = last.df

\* C3 witness: a second application to a table from which a constraining
\* filter had removed rows
C3_Witness ==
    /\ Applied
    /\ last.reapplied
    /\ \E n \in ConfigNames(last.filter_config) :
          n \in DOMAIN filters /\ Effective(filters[n])
    /\ Len(last.df) > 0
    /\ Len(last.df) < Len(companies_df)

\* C4: a call of apply_filters_to_dataframe leaves the argument table and
\* the session's filter mapping as they were.
C4_NoMutation ==
    [][ (\E src \in {"companies_df", "result"}, cfg \in FilterConfigs :
            ApplyFilters(src, cfg))
        => /\ companies_df' = companies_df
           /\ session_state' = session_state
           /\ last'.df_after = last'.df ]_vars

\* C4 witness: the call was made on the session's companies table and
\* returned fewer rows than the table has
C4_Witness ==
    /\ Applied
    /\ last.df = companies_df
    /\ Len(last.result) < Len(last.df)

\* C5 as claimed: setting a filter to "All" removes its entry, any other
\* value is stored for the name, and no name ever maps to "All".
C5_SetFilter ==
    Ready =>
        /\ (last.op \in {"add_filter", "create_manual_filter_controls"}
              /\ last.filter_value = s_All)
            => last.filter_name \notin DOMAIN filters
        /\ (last.op \in {"add_filter", "create_manual_filter_controls"}
              /\ last.filter_value # s_All)
            => /\ last.filter_name \in DOMAIN filters
               /\ filters[last.filter_name] = last.filter_value
        /\ \A n \in DOMAIN filters : filters[n] # s_All

\* the values apply_filters_to_dataframe skips
Skipped == {s_All, EmptyStr, None}

\* C26: add_filter stores any value verbatim, "All" and falsy values
\* included, so the name is among the active filters; apply_filters_to_dataframe
\* constrains only by the stored values that are neither "All" nor falsy;
\* and with a one-filter filter_config no stored value makes it return
\* exactly the rows whose cell is literally "All" or empty, when the table
\* holds such rows and others.
C26_SkippedValues ==
    Ready =>
        /\ last.op = "add_filter" =>
              /\ last.filter_name \in DOMAIN get_active_filters(session_state)
              /\ get_active_filters(session_state)[last.filter_name]
                    = last.filter_value
        /\ Applied =>
              /\ last.result = SelectSeq(last.df,
                    LAMBDA row :
                        \A k \in 1..Len(last.filter_config) :
                            LET n == last.filter_config[k][1]
                            IN  (n \in DOMAIN filters /\ filters[n] \notin Skipped)
                                    => row[last.filter_config[k][2]] = filters[n])
              /\ \A literal \in {s_All, EmptyStr} :
                    (/\ Len(last.filter_config) = 1
                     /\ \E i, j \in 1..Len(last.df) :
                           /\ last.df[i][last.filter_config[1][2]] = literal
                           /\ last.df[j][last.filter_config[1][2]] # literal)
                    => last.result
                          # SelectSeq(last.df,
                              LAMBDA row :
                                  row[last.filter_config[1][2]] = literal)

\* C26 witness: the filter "Industry" is active with the value "All" and is
\* applied to a table holding a company of the industry "All" and another
\* one: both rows are returned
C26_Witness ==
    /\ Applied
    /\ "Industry" \in DOMAIN get_active_filters(session_state)
    /\ filters["Industry"] = s_All
    /\ last.filter_config = << <<"Industry", "Primary Industry">> >>
    /\ Len(last.df) = 2
    /\ last.df[1]["Primary Industry"] = s_All
    /\ last.df[2]["Primary Industry"] = s_Construction
    /\ last.result = last.df

\* C6: remove_filter removes the entry of its name and nothing else, also
\* when the name is not active; clear_all_filters leaves the mapping empty
\* and the five selected_* fields None.
C6_RemoveAndClear ==
    [][ /\ \A n \in FilterNames :
             RemoveFilter(n) =>
                /\ DOMAIN filters' = (DOMAIN filters) \ {n}
                /\ \A k \in DOMAIN filters' : filters'[k] = filters[k]
                /\ \A k \in SelectedKeys : session_state'[k] = session_state[k]
        /\ ClearAllFilters =>
                /\ DOMAIN filters' = {}
                /\ \A k \in SelectedKeys : session_state'[k] = None ]_vars

\* C6 witness: an active filter was removed and another one is still active
C6_Witness ==
    /\ last.op = "remove_filter"
    /\ last.present
    /\ last.filter_name \notin DOMAIN filters
    /\ DOMAIN filters # {}

\* ------------------------------------------------------------------------
\* DataProcessor (utils/data_processor.py): cell functions
\* ------------------------------------------------------------------------
s_SeniorManager == <<"S", "e", "n", "i", "o", "r", " ", "M", "a", "n", "a", "g", "e", "r">>
s_joburl == <<"j", "o", "b", "s", ".", "c", "o", "/", "1">>
d_soon == <<"s", "o", "o", "n">>
d_jan05 == <<"2", "0", "2", "4", "-", "0", "1", "-", "0", "5", " ", "0", "0", ":", "0", "0">>
d_jan05noon == <<"2", "0", "2", "4", "-", "0", "1", "-", "0", "5", " ", "1", "2", ":", "0", "0">>
d_jan11 == <<"2", "0", "2", "4", "-", "0", "1", "-", "1", "1", " ", "0", "6", ":", "0", "0">>
d_feb30 == <<"2", "0", "2", "4", "-", "0", "2", "-", "3", "0", " ", "0", "0", ":", "0", "0">>

\* the keyword lists of _get_seniority_level, in the order they are tested
CLevelWords == {s_ceo, s_president, s_founder, s_owner, s_principal}
VPWords == {s_vp, s_vice_president, s_director, s_head}
ManagerWords == {s_manager, s_lead, s_senior}

\* any(word in title for word in words)
AnyWordIn(title, words) == \E word \in words : Contains(title, word)

get_seniority_level_nolower(title) ==
    IF AnyWordIn(title, CLevelWords) THEN s_CLevel
    ELSE IF AnyWordIn(title, VPWords) THEN s_VPDirector
    ELSE IF AnyWordIn(title, ManagerWords) THEN s_ManagerSenior
    ELSE s_Other

get_seniority_level_vpfirst(title) ==
    LET title_lower == Lower(title)
    IN  IF AnyWordIn(title_lower, VPWords) THEN s_VPDirector
        ELSE IF AnyWordIn(title_lower, CLevelWords) THEN s_CLevel
        ELSE IF AnyWordIn(title_lower, ManagerWords) THEN s_ManagerSenior
        ELSE s_Other

\* _get_seniority_level
get_seniority_level(title) ==
    LET title_lower == Lower(title)
    IN  IF AnyWordIn(title_lower, CLevelWords) THEN s_CLevel
        ELSE IF AnyWordIn(title_lower, VPWords) THEN s_VPDirector
        ELSE IF AnyWordIn(title_lower, ManagerWords) THEN s_ManagerSenior
        ELSE s_Other

extract_country_nounknown(location) ==
    IF IsNa(location) THEN s_Unknown
    ELSE IF Contains(location, s_UnitedStates) THEN s_UnitedStates
    ELSE IF Contains(location, s_Canada) THEN s_Canada
    ELSE IF Contains(location, s_UnitedKingdom) THEN s_UnitedKingdom
    ELSE IF Contains(location, s_India) THEN s_India
    ELSE s_Other

extract_country_indiafirst(location) ==
    IF IsNa(location) \/ location = s_Unknown THEN s_Unknown
    ELSE IF Contains(location, s_India) THEN s_India
    ELSE IF Contains(location, s_UnitedStates) THEN s_UnitedStates
    ELSE IF Contains(location, s_Canada) THEN s_Canada
    ELSE IF Contains(location, s_UnitedKingdom) THEN s_UnitedKingdom
    ELSE s_Other

\* _extract_country
extract_country(location) ==
    IF IsNa(location) \/ location = s_Unknown THEN s_Unknown
    ELSE IF Contains(location, s_UnitedStates) THEN s_UnitedStates
    ELSE IF Contains(location, s_Canada) THEN s_Canada
    ELSE IF Contains(location, s_UnitedKingdom) THEN s_UnitedKingdom
    ELSE IF Contains(location, s_India) THEN s_India
    ELSE s_Other

\* The pattern ,\s*([A-Z]{2}|[A-Za-z\s]+)$ tried at the comma at position p:
\* the positions g at which the group can start, i.e. only whitespace lies
\* between p and g and either exactly two capitals or a non-empty run of
\* letters and whitespace reaches from g to the end of s.  (The only
\* whitespace character of the modelled strings is the blank.)
GroupStarts(s, p) ==
    { g \in (p + 1)..Len(s) :
        /\ \A i \in (p + 1)..(g - 1) : IsSpace(s[i])
        /\ \/ (g + 1 = Len(s) /\ IsUpper(s[g]) /\ IsUpper(s[g + 1]))
           \/ \A i \in g..Len(s) : IsLetter(s[i]) \/ IsSpace(s[i]) }

\* positions of s at which the pattern matches
MatchPositions(s) ==
    { p \in 1..Len(s) : s[p] = "," /\ GroupStarts(s, p) # {} }

SetMin(S) == CHOOSE x \in S : \A y \in S : x <= y
SetMax(S) == CHOOSE x \in S : \A y \in S : y <= x

\* Series.str.extract(r',\s*([A-Z]{2}|[A-Za-z\s]+)$') on one cell: the group
\* of the leftmost match, \s* being greedy; NaN for a missing cell or when
\* the pattern matches nowhere
str_extract_state(location) ==
    IF IsNa(location) THEN NaN
    ELSE IF MatchPositions(location) = {} THEN NaN
    ELSE LET p == SetMin(MatchPositions(location))
             g == SetMax(GroupStarts(location, p))
         IN  SubSeq(location, g, Len(location))

\* --- timestamps: "2024-MM-DD HH:MM", the dates of the inputs lie in 2024 ---
Digits == <<"0", "1", "2", "3", "4", "5", "6", "7", "8", "9">>
IsDigit(c) == \E i \in 1..10 : Digits[i] = c
DigitVal(c) == (CHOOSE i \in 1..10 : Digits[i] = c) - 1
Num2(s, i) == DigitVal(s[i]) * 10 + DigitVal(s[i + 1])
DaysInMonth == <<31, 29, 31, 30, 31, 30, 31, 31, 30, 31, 30, 31>>

WellFormedTimestamp(s) ==
    /\ Len(s) = 16
    /\ \A i \in {1, 2, 3, 4, 6, 7, 9, 10, 12, 13, 15, 16} : IsDigit(s[i])
    /\ s[5] = "-" /\ s[8] = "-" /\ s[11] = " " /\ s[14] = ":"
    /\ SubSeq(s, 1, 4) = <<"2", "0", "2", "4">>
    /\ Num2(s, 6) \in 1..12
    /\ Num2(s, 9) \in 1..DaysInMonth[Num2(s, 6)]
    /\ Num2(s, 12) \in 0..23
    /\ Num2(s, 15) \in 0..59

\* pd.to_datetime(cell, errors='coerce'): NaT for a missing or unparseable cell
to_datetime(cell) ==
    IF IsNa(cell) THEN NaT
    ELSE IF ~WellFormedTimestamp(cell) THEN NaT
    ELSE [na |-> FALSE, month |-> Num2(cell, 6), day |-> Num2(cell, 9),
          hour |-> Num2(cell, 12), minute |-> Num2(cell, 15)]

RECURSIVE DaysBeforeMonth(_)
DaysBeforeMonth(m) ==
    IF m <= 1 THEN 0 ELSE DaysBeforeMonth(m - 1) + DaysInMonth[m - 1]

\* minutes since 2024-01-01 00:00
Minutes(ts) ==
    ((DaysBeforeMonth(ts.month) + ts.day - 1) * 24 + ts.hour) * 60 + ts.minute

\* .dt.date
dt_date(ts) == [na |-> ts.na, month |-> ts.month, day |-> ts.day]

\* .dt.to_period('M')
dt_to_period_M(ts) == [na |-> ts.na, month |-> ts.month]

days_between_ceil(current_time, ts) ==
    IF ts.na THEN [na |-> TRUE, days |-> 0]
    ELSE [na |-> FALSE,
          days |-> (Minutes(current_time) - Minutes(ts) + 1439) \div 1440]

days_between_zero(current_time, ts) ==
    [na |-> FALSE,
     days |-> IF ts.na THEN 0 ELSE (Minutes(current_time) - Minutes(ts)) \div 1440]

days_between_clamped(current_time, ts) ==
    IF ts.na THEN [na |-> TRUE, days |-> 0]
    ELSE [na |-> FALSE,
          days |-> IF Minutes(current_time) < Minutes(ts) THEN 0
                   ELSE (Minutes(current_time) - Minutes(ts)) \div 1440]

\* (current_time - ts).dt.days: whole days, rounded down; missing for NaT
days_between(current_time, ts) ==
    IF ts.na THEN [na |-> TRUE, days |-> 0]
    ELSE [na |-> FALSE,
          days |-> (Minutes(current_time) - Minutes(ts)) \div 1440]

\* ------------------------------------------------------------------------
\* DataProcessor: the preprocess_* functions on a table
\* ------------------------------------------------------------------------
\* a column of strings has object dtype; a column that holds rows and in
\* which every cell is missing is read as float64 and has no .str accessor
HasStrAccessor(df, column) ==
    Len(df) = 0 \/ \E i \in 1..Len(df) : ~IsNa(df[i][column])

\* the row of preprocess_companies
CompanyClean(row) ==
    [c \in (DOMAIN row) \cup {"State", "Has_LinkedIn", "Has_Domain"} |->
        CASE c = "Name" -> fillna(row["Name"], s_Unknown)
          [] c = "State" -> fillna(str_extract_state(row["Location"]), s_Unknown)
          [] c = "Primary Industry" -> fillna(row["Primary Industry"], s_Unknown)
          [] c = "Size" -> fillna(row["Size"], s_Unknown)
          [] c = "Type" -> fillna(row["Type"], s_Unknown)
          [] c = "Country" -> fillna(row["Country"], s_Unknown)
          [] c = "Has_LinkedIn" -> notna(row["LinkedIn URL"])
          [] c = "Has_Domain" -> notna(row["Domain"])
          [] OTHER -> row[c]]

\* preprocess_companies: works on df.copy(); raises at df['Location'].str
\* when the column has no .str accessor
preprocess_companies(df) ==
    IF ~HasStrAccessor(df, "Location")
    THEN [status |-> "raised", df |-> <<>>, arg |-> df]
    ELSE [status |-> "ok",
          df |-> [i \in 1..Len(df) |-> CompanyClean(df[i])],
          arg |-> df]

DecisionMakerClean_nocompany(row) ==
    LET location == fillna(row["Location"], s_Unknown)
        job_title == fillna(row["Job Title"], s_Unknown)
    IN  [c \in (DOMAIN row) \cup {"State", "Company", "Seniority", "Country"} |->
            CASE c = "Full Name" -> fillna(row["Full Name"], s_Unknown)
              [] c = "Job Title" -> job_title
              [] c = "Location" -> location
              [] c = "State" -> fillna(str_extract_state(location), s_Unknown)
              [] c = "Company" -> row["Company Table Data"]
              [] c = "Seniority" -> get_seniority_level(job_title)
              [] c = "Country" -> extract_country(location)
              [] OTHER -> row[c]]

\* the row of preprocess_decision_makers
DecisionMakerClean(row) ==
    LET location == fillna(row["Location"], s_Unknown)
        job_title == fillna(row["Job Title"], s_Unknown)
    IN  [c \in (DOMAIN row) \cup {"State", "Company", "Seniority", "Country"} |->
            CASE c = "Full Name" -> fillna(row["Full Name"], s_Unknown)
              [] c = "Job Title" -> job_title
              [] c = "Location" -> location
              [] c = "State" -> fillna(str_extract_state(location), s_Unknown)
              [] c = "Company" -> fillna(row["Company Table Data"], s_Unknown)
              [] c = "Seniority" -> get_seniority_level(job_title)
              [] c = "Country" -> extract_country(location)
              [] OTHER -> row[c]]

preprocess_decision_makers_inplace(df) ==
    [status |-> "ok",
     df |-> [i \in 1..Len(df) |-> DecisionMakerClean(df[i])],
     arg |-> [i \in 1..Len(df) |-> DecisionMakerClean(df[i])]]

\* preprocess_decision_makers: works on df.copy()
preprocess_decision_makers(df) ==
    [status |-> "ok",
     df |-> [i \in 1..Len(df) |-> DecisionMakerClean(df[i])],
     arg |-> df]

\* the row of preprocess_jobs, current_time being pd.Timestamp.now()
JobClean(row, current_time) ==
    LET post_on == to_datetime(row["Post On"])
    IN  [c \in (DOMAIN row) \cup {"Post Date", "Post Month", "Days Since Posted"} |->
            CASE c = "Job Title" -> fillna(row["Job Title"], s_Unknown)
              [] c = "Location" -> fillna(row["Location"], s_Unknown)
              [] c = "Company Name" -> fillna(row["Company Name"], s_Unknown)
              [] c = "Post On" -> post_on
              [] c = "Post Date" -> dt_date(post_on)
              [] c = "Post Month" -> dt_to_period_M(post_on)
              [] c = "Days Since Posted" -> days_between(current_time, post_on)
              [] OTHER -> row[c]]

\* pd.NA in the column Days Since Posted
pd_NA == [na |-> TRUE, days |-> 0]

preprocess_jobs_perrow(df, current_time, normalises) ==
    [status |-> "ok",
     df |-> [i \in 1..Len(df) |-> JobClean(df[i], current_time)],
     arg |-> df]

preprocess_jobs_dropna(df, current_time, normalises) ==
    LET parsed(row) == ~to_datetime(row["Post On"]).na
        kept == SelectSeq(df, parsed)
    IN  [status |-> "ok",
         df |-> [i \in 1..Len(kept) |-> JobClean(kept[i], current_time)],
         arg |-> df]

\* preprocess_jobs: works on df.copy(); normalises tells whether the try
\* block around the timezone normalisation and the subtraction completes;
\* when it raises, the except branch assigns pd.NA to the whole column
\* Days Since Posted and the function returns the table
preprocess_jobs(df, current_time, normalises) ==
    [status |-> "ok",
     df |-> [i \in 1..Len(df) |->
                IF normalises THEN JobClean(df[i], current_time)
                ELSE [JobClean(df[i], current_time)
                         EXCEPT !["Days Since Posted"] = pd_NA]],
     arg |-> df]

\* ------------------------------------------------------------------------
\* Inputs of the enrichment
\* ------------------------------------------------------------------------
\* non-empty strings made of at most n of the given tokens
Texts(tokens, n) ==
    {Concat(parts) : parts \in UNION {[1..k -> tokens] : k \in 1..n}}

TitleTokens ==
    {s_CEO, s_Senior, s_sp, s_Manager, s_Intern, s_Vice, s_President, s_VP,
     s_Unknown}

\* one-word titles, one per keyword of _get_seniority_level and none
TitleWords ==
    {s_CEO, s_President, s_Founder, s_VP, s_Director, s_Head, s_Manager,
     s_lead, s_Senior, s_Intern, s_Engineer, s_Unknown}

\* two-word titles, matching keywords of up to two tiers
TitlePairs ==
    {Concat(<<a, s_sp, b>>) : a \in TitleWords, b \in TitleWords}

LocationTokens ==
    {s_Austin, s_comma, s_commasp, s_sp, s_TX, s_DC, s_Canada, s_Unknown}

\* the words a location is made of: places, regions, countries
LocationWords ==
    {s_Austin, s_TX, s_DC, s_UnitedStates, s_Canada, s_UnitedKingdom,
     s_India, s_na, s_Unknown, s_Remote, s_Indiana, s_united_states}

\* "place, region" with and without a trailing blank
LocationPairs ==
    {Concat(<<a, s_commasp, b>>) : a \in LocationWords, b \in LocationWords}
    \cup {Concat(<<a, s_commasp, b, s_sp>>) : a \in {s_Austin}, b \in LocationWords}

Titles == Texts(TitleTokens, MaxTokens) \cup TitleWords \cup TitlePairs
Locations == Texts(LocationTokens, MaxTokens) \cup LocationWords \cup LocationPairs

\* row with the cells of the columns in m missing
WithMissing(row, m) == [c \in DOMAIN row |-> IF c \in m THEN NaN ELSE row[c]]

\* the sets of columns that are missing in a row
MissingSets(columns) ==
    {m \in SUBSET columns : Cardinality(m) <= MaxMissing} \cup {columns}

CompanyRaw ==
    ("Name" :> s_Acme) @@ ("Location" :> s_AustinTX) @@
    ("Primary Industry" :> s_Construction) @@ ("Size" :> s_Small) @@
    ("Type" :> s_PrivatelyHeld) @@ ("Country" :> s_UnitedStates) @@
    ("LinkedIn URL" :> s_url) @@ ("Domain" :> s_domain)

DecisionMakerRaw ==
    ("Full Name" :> s_JaneDoe) @@ ("Job Title" :> s_CEO) @@
    ("Location" :> s_AustinTX) @@ ("Company Table Data" :> s_Acme) @@
    ("LinkedIn URL" :> s_url)

JobRaw(post_on) ==
    ("Job Title" :> s_Engineer) @@ ("Company Name" :> s_Acme) @@
    ("Location" :> s_AustinTX) @@ ("Post On" :> post_on) @@
    ("Job URL" :> s_joburl)

\* the columns whose cells are missing in the rows of longer tables
CompanyMissingColumns == {"Location", "Primary Industry", "Size", "LinkedIn URL"}
DecisionMakerMissingColumns == {"Job Title", "Location", "Company Table Data"}
JobMissingColumns == {"Company Name", "Location", "Post On"}

PostOnCells == {d_soon, d_jan05, d_jan05noon, d_jan11, d_feb30}

\* pd.Timestamp.now(): 2024-01-10 00:00 or 18:00
NowValues ==
    { [na |-> FALSE, month |-> 1, day |-> 10, hour |-> h, minute |-> 0] :
        h \in {0, 18} }

\* tables of rows with missing cells, and one-row tables over the texts
CompanyTables ==
    SeqsUpTo({WithMissing(CompanyRaw, m) : m \in MissingSets(CompanyMissingColumns)},
             MaxRows)
    \cup { <<WithMissing(CompanyRaw, m)>> : m \in MissingSets(DOMAIN CompanyRaw) }
    \cup { <<[CompanyRaw EXCEPT !["Location"] = l]>> : l \in Locations }

DecisionMakerTables ==
    SeqsUpTo({WithMissing(DecisionMakerRaw, m) :
                 m \in MissingSets(DecisionMakerMissingColumns)}, MaxRows)
    \cup { <<WithMissing(DecisionMakerRaw, m)>> :
              m \in MissingSets(DOMAIN DecisionMakerRaw) }
    \cup { <<[DecisionMakerRaw EXCEPT !["Location"] = l]>> : l \in Locations }
    \cup { <<[DecisionMakerRaw EXCEPT !["Job Title"] = t]>> : t \in Titles }

JobTables ==
    SeqsUpTo({JobRaw(d) : d \in PostOnCells}
             \cup {WithMissing(JobRaw(d_jan05), m) :
                      m \in MissingSets(JobMissingColumns)}, MaxRows)
    \cup { <<WithMissing(JobRaw(d_jan05), m)>> :
              m \in MissingSets(DOMAIN JobRaw(d_jan05)) }

\* names of distinct industries
SectorLetters == <<"A", "B", "C", "D", "E", "F", "G", "H", "I", "J", "K", "L">>
SectorName(i) == <<"S", "e", "c", "t", "o", "r", " ", SectorLetters[i]>>

\* a companies table of n industries with reps rows each, and m rows whose
\* Primary Industry is missing, before or after them
IndustryTable(n, reps, m, missing_first) ==
    LET named == [i \in 1..(n * reps) |->
                    [CompanyRaw EXCEPT !["Primary Industry"] =
                                          SectorName(((i - 1) \div reps) + 1)]]
        missing == [i \in 1..m |-> WithMissing(CompanyRaw, {"Primary Industry"})]
    IN  IF missing_first THEN missing \o named ELSE named \o missing

IndustryTables ==
    {IndustryTable(n, reps, m, f) :
        n \in 0..MaxIndustries, reps \in 1..2, m \in 0..2, f \in BOOLEAN}

RawTables ==
    {[kind |-> "companies", df |-> t] : t \in CompanyTables \cup IndustryTables}
    \cup {[kind |-> "decision_makers", df |-> t] : t \in DecisionMakerTables}
    \cup {[kind |-> "jobs", df |-> t] : t \in JobTables}

\* ------------------------------------------------------------------------
\* The industry chart of the companies page
\* ------------------------------------------------------------------------
\* number of bars of the Industry Market Share chart
TopIndustries == 8

value_counts_dropunknown(df, column) ==
    [k \in {v \in Unique(df, column) : ~IsNa(v) /\ v # s_Unknown} |->
        Cardinality({i \in 1..Len(df) : df[i][column] = k})]

\* df[column].value_counts(): occurrences of each value, missing cells dropped
value_counts(df, column) ==
    [k \in {v \in Unique(df, column) : ~IsNa(v)} |->
        Cardinality({i \in 1..Len(df) : df[i][column] = k})]

\* .head(n) of a value_counts() result: the n most frequent keys; the order
\* among equal counts is not fixed, so every choice of n top keys is possible
head(counts, n) ==
    LET keys == DOMAIN counts
        size == IF Cardinality(keys) < n THEN Cardinality(keys) ELSE n
    IN  { [k \in top |-> counts[k]] :
            top \in {t \in SUBSET keys :
                        /\ Cardinality(t) = size
                        /\ \A a \in t : \A b \in keys \ t : counts[a] >= counts[b]} }

\* ------------------------------------------------------------------------
\* Actions of the enrichment (ClayDashboard.load_and_process_data)
\* ------------------------------------------------------------------------
Outcome(r, current_time, normalises) ==
    [status |-> r.status, df |-> r.df, arg |-> r.arg, now |-> current_time,
     normalised |-> normalises]

PreprocessCompanies ==
    /\ raw.kind = "companies"
    /\ LET r == preprocess_companies(raw.df)
       IN  /\ clean' = Outcome(r, NaT, TRUE)
           /\ raw' = [raw EXCEPT !.df = r.arg]
    /\ UNCHANGED <<session_state, companies_df, decision_makers_df, last>>
    /\ UNCHANGED <<chart, disk, cache, reads, sessions, actor>>

PreprocessDecisionMakers ==
    /\ raw.kind = "decision_makers"
    /\ LET r == preprocess_decision_makers(raw.df)
       IN  /\ clean' = Outcome(r, NaT, TRUE)
           /\ raw' = [raw EXCEPT !.df = r.arg]
    /\ UNCHANGED <<session_state, companies_df, decision_makers_df, last>>
    /\ UNCHANGED <<chart, disk, cache, reads, sessions, actor>>

PreprocessJobs ==
    /\ raw.kind = "jobs"
    /\ \E current_time \in NowValues, normalises \in BOOLEAN :
         LET r == preprocess_jobs(raw.df, current_time, normalises)
         IN  /\ clean' = Outcome(r, current_time, normalises)
             /\ raw' = [raw EXCEPT !.df = r.arg]
    /\ UNCHANGED <<session_state, companies_df, decision_makers_df, last>>
    /\ UNCHANGED <<chart, disk, cache, reads, sessions, actor>>

\* render_companies_page: industry_counts of the enriched companies table
RenderCompaniesPage ==
    /\ raw.kind = "companies"
    /\ clean.status = "ok"
    /\ \E industry_counts \in head(value_counts(clean.df, "Primary Industry"),
                                   TopIndustries) :
         chart' = [drawn |-> TRUE, counts |-> industry_counts]
    /\ UNCHANGED <<session_state, companies_df, decision_makers_df, last, raw, clean>>
    /\ UNCHANGED appvars

InitEnrich ==
    /\ session_state = EmptyDict
    /\ companies_df = <<>>
    /\ decision_makers_df = <<>>
    /\ last = NoCall
    /\ raw \in RawTables
    /\ clean = NotRun
    /\ chart = NoChart
    /\ AppIdle

NextEnrich ==
    \/ RenderCompaniesPage
    \/ PreprocessCompanies
    \/ PreprocessDecisionMakers
    \/ PreprocessJobs

SpecEnrich == InitEnrich /\ [][NextEnrich]_vars

\* ------------------------------------------------------------------------
\* Properties of the enrichment
\* ------------------------------------------------------------------------
Returned(kind) == raw.kind = kind /\ clean.status = "ok"

\* the source cell with a missing value replaced by "Unknown"
Filled(cell) == IF cell = NaN THEN s_Unknown ELSE cell

SeniorityTiers == {s_CLevel, s_VPDirector, s_ManagerSenior, s_Other}

\* some keyword of the tier occurs in the lower-cased title
TierMatches(title, words) == \E w \in words : Contains(Lower(title), w)

\* C7: Seniority is one of the four tiers and is the first tier, in the
\* order C-Level/Principal, VP/Director, Manager/Senior, with a keyword
\* occurring in the lower-cased title, Other when there is none; "CEO" gives
\* C-Level/Principal, "Senior Manager" Manager/Senior and "Intern" Other.
C7_Seniority ==
    Returned("decision_makers") =>
        \A i \in 1..Len(clean.df) :
            LET title == Filled(raw.df[i]["Job Title"])
                tier == clean.df[i]["Seniority"]
                c == TierMatches(title, {s_ceo, s_president, s_founder,
                                         s_owner, s_principal})
                v == TierMatches(title, {s_vp, s_vice_president, s_director,
                                         s_head})
                m == TierMatches(title, {s_manager, s_lead, s_senior})
            IN  /\ tier \in SeniorityTiers
                /\ (tier = s_CLevel) <=> c
                /\ (tier = s_VPDirector) <=> (~c /\ v)
                /\ (tier = s_ManagerSenior) <=> (~c /\ ~v /\ m)
                /\ (tier = s_Other) <=> (~c /\ ~v /\ ~m)
                /\ title = s_CEO => tier = s_CLevel
                /\ title = s_SeniorManager => tier = s_ManagerSenior
                /\ title = s_Intern => tier = s_Other

\* C7 witness: the title "Senior Manager" was classified Manager/Senior
C7_Witness ==
    /\ Returned("decision_makers")
    /\ \E i \in 1..Len(clean.df) :
          /\ raw.df[i]["Job Title"] = s_SeniorManager
          /\ clean.df[i]["Seniority"] = s_ManagerSenior

\* str.strip() for the blank
RECURSIVE LStrip(_)
LStrip(s) == IF s # <<>> /\ IsSpace(Head(s)) THEN LStrip(Tail(s)) ELSE s

RECURSIVE RStrip(_)
RStrip(s) ==
    IF s # <<>> /\ IsSpace(s[Len(s)]) THEN RStrip(SubSeq(s, 1, Len(s) - 1)) ELSE s

Strip(s) == RStrip(LStrip(s))

\* the text after the last comma of a location that has one
AfterLastComma(s) ==
    LET p == SetMax({i \in 1..Len(s) : s[i] = ","})
    IN  SubSeq(s, p + 1, Len(s))

\* the region as claimed: the trimmed text after the last comma, "Unknown"
\* for a missing location, one without a comma or one with nothing after it
ClaimedRegion(location) ==
    IF location = NaN THEN s_Unknown
    ELSE IF \A i \in 1..Len(location) : location[i] # "," THEN s_Unknown
    ELSE IF Strip(AfterLastComma(location)) = <<>> THEN s_Unknown
    ELSE Strip(AfterLastComma(location))

\* C8 as claimed: the State of every company and every decision maker is
\* the text after the last comma of its Location, trimmed of whitespace, and
\* "Unknown" when the Location has no comma or is missing.
C8_Region ==
    (Returned("companies") \/ Returned("decision_makers")) =>
        \A i \in 1..Len(clean.df) :
            clean.df[i]["State"] = ClaimedRegion(raw.df[i]["Location"])

\* the string columns used for grouping and filtering, per table
GroupingColumns ==
    [ companies |-> {"Name", "Primary Industry", "Size", "Type", "Country", "State"},
      decision_makers |-> {"Full Name", "Job Title", "Location", "State",
                           "Company", "Seniority", "Country"},
      jobs |-> {"Job Title", "Location", "Company Name"} ]

\* the raw column a grouping column is copied or derived from
SourceColumn(kind, c) ==
    CASE c = "Company" -> "Company Table Data"
      [] c = "State" -> "Location"
      [] c = "Seniority" -> "Job Title"
      [] c = "Country" /\ kind = "decision_makers" -> "Location"
      [] OTHER -> c

\* C9: in a table returned by a preprocess_* function no grouping column
\* holds a missing value, and where the source cell is missing the column
\* holds "Unknown" (Seniority, derived from the defaulted title, holds the
\* tier of "Unknown").
C9_NoMissing ==
    clean.status = "ok" =>
        \A i \in 1..Len(clean.df) :
            \A c \in GroupingColumns[raw.kind] :
                /\ clean.df[i][c] # NaN
                /\ clean.df[i][c] # None
                /\ raw.df[i][SourceColumn(raw.kind, c)] = NaN =>
                      clean.df[i][c] = IF c = "Seniority" THEN s_Other
                                       ELSE s_Unknown

\* C9 witness: a companies table was returned in which one row had no
\* Location and another had no Primary Industry
C9_Witness ==
    /\ Returned("companies")
    /\ \E i \in 1..Len(clean.df) :
          raw.df[i]["Location"] = NaN /\ clean.df[i]["State"] = s_Unknown
    /\ \E i \in 1..Len(clean.df) :
          /\ raw.df[i]["Primary Industry"] = NaN
          /\ clean.df[i]["Primary Industry"] = s_Unknown

CountryNames == {s_UnitedStates, s_Canada, s_UnitedKingdom, s_India}

\* C10: Country of a decision maker is one of six values; it is "Unknown"
\* exactly when the Location is missing or "Unknown"; otherwise it is one
\* of the four country names that occurs in the Location when one occurs,
\* and "Other" when none occurs.
C10_Country ==
    Returned("decision_makers") =>
        \A i \in 1..Len(clean.df) :
            LET location == raw.df[i]["Location"]
                country == clean.df[i]["Country"]
                unknown == location = NaN \/ location = s_Unknown
            IN  /\ country \in CountryNames \cup {s_Other, s_Unknown}
                /\ (country = s_Unknown) <=> unknown
                /\ ~unknown =>
                      IF \E n \in CountryNames : Contains(location, n)
                      THEN country \in CountryNames /\ Contains(location, country)
                      ELSE country = s_Other

\* C10 witness: a location naming the United Kingdom and no earlier country
\* was classified United Kingdom
C10_Witness ==
    /\ Returned("decision_makers")
    /\ \E i \in 1..Len(clean.df) :
          /\ Contains(raw.df[i]["Location"], s_UnitedKingdom)
          /\ ~Contains(raw.df[i]["Location"], s_Canada)
          /\ ~Contains(raw.df[i]["Location"], s_UnitedStates)
          /\ clean.df[i]["Country"] = s_UnitedKingdom

\* the raw posting date of a job row parses to a valid timestamp
Parses(cell) == ~IsNa(cell) /\ WellFormedTimestamp(cell)

\* the whole days a posting age can take in the year
DayRange == 0..366

\* C11: for a posting timestamp that lies d whole days plus less than one
\* day before now, Days Since Posted is d (5 for exactly five days), the
\* try block of preprocess_jobs having completed.
C11_DaysSincePosted ==
    Returned("jobs") =>
        \A i \in 1..Len(clean.df) :
            LET cell == raw.df[i]["Post On"]
                age == Minutes(clean.now) - Minutes(to_datetime(cell))
            IN  (Parses(cell) /\ age >= 0 /\ clean.normalised) =>
                    \E d \in DayRange :
                        /\ d * 1440 <= age /\ age < (d + 1) * 1440
                        /\ clean.df[i]["Days Since Posted"] = [na |-> FALSE, days |-> d]

C11_Witness ==
    /\ Returned("jobs")
    /\ clean.normalised
    /\ clean.now.hour = 0
    /\ \E i \in 1..Len(clean.df) :
          /\ raw.df[i]["Post On"] = d_jan05
          /\ clean.df[i]["Days Since Posted"] = [na |-> FALSE, days |-> 5]
    /\ \E i \in 1..Len(clean.df) :
          /\ raw.df[i]["Post On"] = d_jan05noon
          /\ clean.df[i]["Days Since Posted"] = [na |-> FALSE, days |-> 4]

C21_AllOrNothing ==
    (raw.kind = "jobs" /\ clean.status # "none" /\ ~clean.normalised) =>
        /\ clean.status = "ok"
        /\ Len(clean.df) = Len(raw.df)
        /\ \A i \in 1..Len(clean.df) :
              LET post_on == to_datetime(raw.df[i]["Post On"])
              IN  /\ clean.df[i]["Days Since Posted"].na
                  /\ clean.df[i]["Post Date"] = dt_date(post_on)
                  /\ clean.df[i]["Post Month"] = dt_to_period_M(post_on)
                  /\ clean.df[i]["Post Date"].na = ~Parses(raw.df[i]["Post On"])

\* C21 witness: the try block raised on a table of two rows, one with a
\* parsed posting date: its Post Date is kept, its Days Since Posted absent
C21_Witness ==
    /\ Returned("jobs")
    /\ ~clean.normalised
    /\ Len(clean.df) = 2
    /\ \E i \in 1..Len(clean.df) :
          /\ raw.df[i]["Post On"] = d_jan05
          /\ ~clean.df[i]["Post Date"].na
          /\ ~clean.df[i]["Post Month"].na
          /\ clean.df[i]["Days Since Posted"].na
    /\ \E i \in 1..Len(clean.df) : raw.df[i]["Post On"] = d_soon

\* C24: a title whose lower-cased text contains "vice president" contains
\* "president" too and is C-Level/Principal, so the tier is what it would be
\* without the keyword "vice president"; a title with keywords of several
\* tiers gets the earliest of them (C-Level/Principal before VP/Director
\* before Manager/Senior; "Senior Director" gives VP/Director).
C24_EarliestTier ==
    Returned("decision_makers") =>
        \A i \in 1..Len(clean.df) :
            LET title == Filled(raw.df[i]["Job Title"])
                tier == clean.df[i]["Seniority"]
                c == TierMatches(title, {s_ceo, s_president, s_founder,
                                         s_owner, s_principal})
                v == TierMatches(title, {s_vp, s_director, s_head})
                m == TierMatches(title, {s_manager, s_lead, s_senior})
            IN  /\ Contains(Lower(title), s_vice_president) =>
                      /\ Contains(Lower(title), s_president)
                      /\ tier = s_CLevel
                /\ (tier = s_VPDirector) <=> (~c /\ v)
                /\ (c /\ (v \/ m)) => tier = s_CLevel
                /\ (~c /\ v /\ m) => tier = s_VPDirector
                /\ title = Concat(<<s_Senior, s_sp, s_Director>>) =>
                      tier = s_VPDirector

\* C24 witness: "Vice President" was classified C-Level/Principal
C24_Witness ==
    /\ Returned("decision_makers")
    /\ \E i \in 1..Len(clean.df) :
          /\ raw.df[i]["Job Title"] = Concat(<<s_Vice, s_sp, s_President>>)
          /\ clean.df[i]["Seniority"] = s_CLevel

\* the country names in the order _extract_country tests them
CountryOrder == <<s_UnitedStates, s_Canada, s_UnitedKingdom, s_India>>

\* C25: for a location that is neither missing nor "Unknown", Country is the
\* first name in the order United States, Canada, United Kingdom, India
\* that occurs in the location as a case-sensitive substring, and "Other"
\* when none occurs: "united states" gives "Other", a location containing
\* "Indiana" and none of the earlier names gives "India".
C25_CountryOrder ==
    Returned("decision_makers") =>
        \A i \in 1..Len(clean.df) :
            LET location == raw.df[i]["Location"]
                country == clean.df[i]["Country"]
                found == {k \in 1..Len(CountryOrder) :
                             Contains(location, CountryOrder[k])}
            IN  (location # NaN /\ location # s_Unknown) =>
                    /\ found = {} => country = s_Other
                    /\ found # {} =>
                          \E k \in found :
                              /\ country = CountryOrder[k]
                              /\ \A j \in found : k <= j
                    /\ location = s_united_states => country = s_Other
                    /\ (Contains(location, s_Indiana) /\ found \subseteq {4}) =>
                          country = s_India

\* C25 witness: "India, Canada" was classified Canada
C25_Witness ==
    /\ Returned("decision_makers")
    /\ \E i \in 1..Len(clean.df) :
          /\ raw.df[i]["Location"] = Concat(<<s_India, s_commasp, s_Canada>>)
          /\ clean.df[i]["Country"] = s_Canada

\* C27: when the try block completed, a parsed posting timestamp later than
\* now gets a negative Days Since Posted, the floor of the difference in
\* days (-1 for less than one day ahead), and the value is >= 0 exactly when
\* the posting timestamp is not later than now.
C27_NotClamped ==
    (Returned("jobs") /\ clean.normalised) =>
        \A i \in 1..Len(clean.df) :
            LET cell == raw.df[i]["Post On"]
                age == Minutes(clean.now) - Minutes(to_datetime(cell))
                days == clean.df[i]["Days Since Posted"].days
            IN  Parses(cell) =>
                    /\ (days >= 0) <=> (age >= 0)
                    /\ age < 0 =>
                          /\ days < 0
                          /\ days * 1440 <= age /\ age < (days + 1) * 1440
                    /\ (age < 0 /\ age > -1440) => days = -1

\* C27 witness: a posting twelve hours ahead of now got -1
C27_Witness ==
    /\ Returned("jobs")
    /\ clean.normalised
    /\ clean.now.hour = 18
    /\ \E i \in 1..Len(clean.df) :
          /\ raw.df[i]["Post On"] = d_jan11
          /\ clean.df[i]["Days Since Posted"] = [na |-> FALSE, days |-> -1]

\* the source columns whose missing cells get the default "Unknown"
DefaultedColumns ==
    [companies |-> {"Name", "Primary Industry", "Size", "Type", "Country"},
     decision_makers |-> {"Full Name", "Job Title", "Location"},
     jobs |-> {"Job Title", "Location", "Company Name"}]

\* the source columns a preprocess_* function assigns to
AssignedColumns ==
    [companies |-> DefaultedColumns["companies"],
     decision_makers |-> DefaultedColumns["decision_makers"],
     jobs |-> DefaultedColumns["jobs"] \cup {"Post On"}]

\* C30: a returned table has a row per input row, in the input's order:
\* row i carries the cells of input row i in every column the function does
\* not assign to, a non-missing cell of a defaulted column keeps its value
\* and a missing one becomes "Unknown".
C30_RowPreserving ==
    clean.status = "ok" =>
        /\ Len(clean.df) = Len(raw.df)
        /\ \A i \in 1..Len(raw.df) :
              /\ DOMAIN raw.df[i] \subseteq DOMAIN clean.df[i]
              /\ \A c \in DOMAIN raw.df[i] :
                    IF c \in DefaultedColumns[raw.kind]
                    THEN clean.df[i][c] =
                            IF raw.df[i][c] = NaN THEN s_Unknown ELSE raw.df[i][c]
                    ELSE c \notin AssignedColumns[raw.kind] =>
                            clean.df[i][c] = raw.df[i][c]

\* C30 witness: a jobs table of two different rows, the first without a
\* company name and with an unparseable date, came back in the same order
C30_Witness ==
    /\ Returned("jobs")
    /\ Len(clean.df) = 2
    /\ raw.df[1]["Post On"] = d_soon
    /\ raw.df[2]["Company Name"] = NaN
    /\ clean.df[1]["Company Name"] = s_Acme
    /\ clean.df[2]["Company Name"] = s_Unknown
    /\ clean.df[1]["Post On"].na

\* C13 as claimed: whatever cells of a raw table are missing, each
\* preprocess_* function returns normally (none raises).
C13_NeverRaises == clean.status # "raised"

\* C17: a preprocess_* call, returning or raising, leaves the table passed
\* in with the columns and cell values it had before the call.
C17_SourceUnchanged == [][raw' = raw]_vars

C17_Witness ==
    /\ Returned("decision_makers")
    /\ Len(raw.df) > 0
    /\ \E i \in 1..Len(raw.df) : raw.df[i]["Location"] = NaN
    /\ \A i \in 1..Len(raw.df) : "Seniority" \notin DOMAIN raw.df[i]
    /\ \A i \in 1..Len(clean.df) : clean.df[i]["Location"] # NaN

RECURSIVE SumCounts(_)
SumCounts(counts) ==
    IF DOMAIN counts = {} THEN 0
    ELSE LET k == CHOOSE x \in DOMAIN counts : TRUE
         IN  counts[k] + SumCounts([j \in DOMAIN counts \ {k} |-> counts[j]])

\* rows of the enriched table whose Primary Industry is v
RowsWithIndustry(v) == {i \in 1..Len(clean.df) : clean.df[i]["Primary Industry"] = v}

MissingIndustryRows == {i \in 1..Len(raw.df) : raw.df[i]["Primary Industry"] = NaN}

\* C19 as claimed: every row with a missing Primary Industry is counted under
\* the key "Unknown" of the industry counts of the companies page, and the
\* counts sum to the number of rows, for every companies table.
C19_UnknownCountedAlways ==
    chart.drawn =>
        /\ \A i \in MissingIndustryRows : clean.df[i]["Primary Industry"] = s_Unknown
        /\ MissingIndustryRows # {} =>
              /\ s_Unknown \in DOMAIN chart.counts
              /\ chart.counts[s_Unknown] = Cardinality(RowsWithIndustry(s_Unknown))
        /\ SumCounts(chart.counts) = Len(clean.df)

\* C19: every row with a missing Primary Industry gets "Unknown"; each key of
\* the industry counts carries the number of rows with that industry; and
\* for a table with at most TopIndustries distinct industries every industry
\* is a key, so missing rows are counted under "Unknown" and the counts sum
\* to the number of rows.
C19_UnknownCounted ==
    chart.drawn =>
        LET industries == {clean.df[i]["Primary Industry"] : i \in 1..Len(clean.df)}
        IN  /\ \A i \in MissingIndustryRows :
                  clean.df[i]["Primary Industry"] = s_Unknown
            /\ DOMAIN chart.counts \subseteq industries
            /\ \A k \in DOMAIN chart.counts :
                  chart.counts[k] = Cardinality(RowsWithIndustry(k))
            /\ Cardinality(industries) <= TopIndustries =>
                  /\ DOMAIN chart.counts = industries
                  /\ SumCounts(chart.counts) = Len(clean.df)
                  /\ MissingIndustryRows # {} =>
                        chart.counts[s_Unknown] >= Cardinality(MissingIndustryRows)

C19_Witness ==
    /\ chart.drawn
    /\ Len(raw.df) = 3
    /\ Cardinality(MissingIndustryRows) = 1
    /\ s_Unknown \in DOMAIN chart.counts
    /\ chart.counts[s_Unknown] = 1
    /\ SumCounts(chart.counts) = 3

\* ------------------------------------------------------------------------
\* The files under data/ and load_data_files (utils/data_processor.py)
\* ------------------------------------------------------------------------
\* a readable CSV file: its header and its rows
File(columns, rows) == [readable |-> TRUE, columns |-> columns, rows |-> rows]

\* a loaded or derived table (DataFrame): its columns and its rows
Frame(columns, rows) == [is_none |-> FALSE, columns |-> columns, rows |-> rows]

DropColumn(rows, column) ==
    [i \in 1..Len(rows) |-> [c \in DOMAIN rows[i] \ {column} |-> rows[i][c]]]

CompaniesRows ==
    << CompanyRaw,
       [CompanyRaw EXCEPT !["Name"] = s_Beta, !["Primary Industry"] = s_Software,
                          !["Size"] = s_Large] >>

CompaniesRowsLater ==
    << [CompanyRaw EXCEPT !["Name"] = s_Gamma, !["Primary Industry"] = NaN] >>

DecisionMakersRows ==
    << DecisionMakerRaw,
       [DecisionMakerRaw EXCEPT !["Company Table Data"] = s_Beta,
                                !["Job Title"] = NaN] >>

JobsRows == << JobRaw(d_jan05), JobRaw(d_soon) >>

CompaniesFile == File(DOMAIN CompanyRaw, CompaniesRows)
DecisionMakersFile == File(DOMAIN DecisionMakerRaw, DecisionMakersRows)
JobsFile == File(DOMAIN JobRaw(d_jan05), JobsRows)

GoodDisk ==
    [companies |-> CompaniesFile, decision_makers |-> DecisionMakersFile,
     jobs |-> JobsFile]

\* the contents data/ can have: the three files as expected, a later version
\* of companies.csv, one file unreadable, one file lacking a column
Disks ==
    { GoodDisk,
      [GoodDisk EXCEPT !.companies = File(DOMAIN CompanyRaw, CompaniesRowsLater)],
      [GoodDisk EXCEPT !.companies = Unreadable],
      [GoodDisk EXCEPT !.decision_makers = Unreadable],
      [GoodDisk EXCEPT !.jobs = Unreadable],
      [GoodDisk EXCEPT !.companies =
          File(DOMAIN CompanyRaw \ {"Size"}, DropColumn(CompaniesRows, "Size"))],
      [GoodDisk EXCEPT !.decision_makers =
          File(DOMAIN DecisionMakerRaw \ {"LinkedIn URL"},
               DropColumn(DecisionMakersRows, "LinkedIn URL"))],
      [GoodDisk EXCEPT !.jobs =
          File(DOMAIN JobRaw(d_jan05) \ {"Job URL"}, DropColumn(JobsRows, "Job URL"))] }

\* pd.read_csv of a readable file
read_csv(file) == Frame(file.columns, file.rows)

load_data_files_partial(files) ==
    [k \in Kinds |-> IF files[k].readable THEN read_csv(files[k]) ELSE NoneFrame]

\* load_data_files' body: the three reads in one try; any exception gives
\* st.error and (None, None, None)
load_data_files(files) ==
    IF \A k \in Kinds : files[k].readable
    THEN [k \in Kinds |-> read_csv(files[k])]
    ELSE NoneTriple

load_data_uncached(entry, files) ==
    [value |-> load_data_files(files),
     entry |-> [filled |-> TRUE, value |-> load_data_files(files)],
     read  |-> TRUE]

load_data_forgetfailure(entry, files) ==
    IF entry.filled
    THEN [value |-> entry.value, entry |-> entry, read |-> FALSE]
    ELSE [value |-> load_data_files(files),
          entry |-> IF load_data_files(files) = NoneTriple THEN entry
                    ELSE [filled |-> TRUE, value |-> load_data_files(files)],
          read  |-> TRUE]

\* DataProcessor.load_data: load_data_files through st.cache_data; the body
\* runs only when there is no entry, and its return value is memoised
load_data(entry, files) ==
    IF entry.filled
    THEN [value |-> entry.value, entry |-> entry, read |-> FALSE]
    ELSE [value |-> load_data_files(files),
          entry |-> [filled |-> TRUE, value |-> load_data_files(files)],
          read  |-> TRUE]

cache_clear_kept == cache

\* st.cache_data.clear()
cache_clear == EmptyCache

\* ------------------------------------------------------------------------
\* ClayDashboard.run (clay-dashboard.py): one run of the script
\* ------------------------------------------------------------------------
\* the input columns each preprocess_* function reads
EnrichColumns ==
    [companies |-> {"Name", "Location", "Primary Industry", "Size", "Type",
                    "Country", "LinkedIn URL", "Domain"},
     decision_makers |-> {"Full Name", "Job Title", "Location", "Company Table Data"},
     jobs |-> {"Job Title", "Location", "Company Name", "Post On"}]

\* the columns each preprocess_* function adds
DerivedColumns ==
    [companies |-> {"State", "Has_LinkedIn", "Has_Domain"},
     decision_makers |-> {"State", "Company", "Seniority", "Country"},
     jobs |-> {"Post Date", "Post Month", "Days Since Posted"}]

\* the columns each data table of a page selects
TableColumns ==
    [companies |-> {"Name", "Primary Industry", "Size", "Location",
                    "LinkedIn URL", "Domain"},
     decision_makers |-> DisplayColumns,
     jobs |-> {"Job Title", "Company Name", "Location", "Post On", "Job URL"}]

\* a preprocess_* call on a loaded table: KeyError when a column it reads is
\* not in the table
preprocess(kind, frame, current_time) ==
    IF ~(EnrichColumns[kind] \subseteq frame.columns)
    THEN [status |-> "raised", frame |-> NoneFrame]
    ELSE LET r == CASE kind = "companies" -> preprocess_companies(frame.rows)
                    [] kind = "decision_makers" -> preprocess_decision_makers(frame.rows)
                    [] OTHER -> preprocess_jobs(frame.rows, current_time, TRUE)
         IN  IF r.status = "raised"
             THEN [status |-> "raised", frame |-> NoneFrame]
             ELSE [status |-> "ok",
                   frame |-> Frame(frame.columns \cup DerivedColumns[kind], r.df)]

\* what a run puts on the screen or calls, in order
E(what, of) == <<what, of>>

\* the outcome of load_and_process_data, c, d and j being the outcomes of its
\* three preprocess_* calls: the first that raises ends it
processed(c, d, j) ==
    LET loaded == <<E("spinner", ""), E("load_data", "")>>
    IN  IF c.status = "raised"
        THEN [status |-> "raised", enriched |-> NoneTriple,
              events |-> loaded \o <<E("preprocess", "companies")>>]
        ELSE IF d.status = "raised"
        THEN [status |-> "raised", enriched |-> NoneTriple,
              events |-> loaded \o <<E("preprocess", "companies"),
                                     E("preprocess", "decision_makers")>>]
        ELSE IF j.status = "raised"
        THEN [status |-> "raised", enriched |-> NoneTriple,
              events |-> loaded \o <<E("preprocess", "companies"),
                                     E("preprocess", "decision_makers"),
                                     E("preprocess", "jobs")>>]
        ELSE [status |-> "ok",
              enriched |-> [companies |-> c.frame, decision_makers |-> d.frame,
                            jobs |-> j.frame],
              events |-> loaded \o <<E("preprocess", "companies"),
                                     E("preprocess", "decision_makers"),
                                     E("preprocess", "jobs")>>]

\* load_and_process_data on the value load_data returned: st.error and
\* st.stop when a table is None, else the three preprocess_* calls in order
load_and_process_data(value, current_time) ==
    IF \E k \in Kinds : value[k].is_none
    THEN [status |-> "stopped", enriched |-> NoneTriple,
          events |-> <<E("spinner", ""), E("load_data", ""),
                       E("st.error", "load"), E("st.stop", "")>>]
    ELSE CHOOSE outcome \in
             { processed(c, d, j) :
                 c \in {preprocess("companies", value["companies"], current_time)},
                 d \in {preprocess("decision_makers", value["decision_makers"],
                                   current_time)},
                 j \in {preprocess("jobs", value["jobs"], current_time)} } : TRUE

\* _render_*_data_table: the selected columns of the table a page was given
data_table(kind, frame) ==
    Frame(TableColumns[kind],
          [i \in 1..Len(frame.rows) |->
              [col \in TableColumns[kind] |-> frame.rows[i][col]]])

\* the tabs of run(), in order
Tabs == <<"overview", "companies", "decision_makers", "jobs">>

\* the four with-tab blocks of run(), from tab i on: each page draws its
\* metrics and charts from the enriched table it is given and then its data
\* table; selecting a column that is absent raises KeyError, which ends the
\* try block
RECURSIVE RenderTabs(_, _, _)
RenderTabs(enriched, i, acc) ==
    IF i > Len(Tabs) THEN acc
    ELSE LET tab == Tabs[i]
         IN  IF tab = "overview"
             THEN RenderTabs(enriched, i + 1,
                    [acc EXCEPT !.events = @ \o <<E("description", tab), E("page", tab)>>])
             ELSE IF TableColumns[tab] \subseteq enriched[tab].columns
             THEN RenderTabs(enriched, i + 1,
                    [acc EXCEPT !.events = @ \o <<E("description", tab), E("charts", tab),
                                                  E("table", tab)>>,
                                !.shown[tab] = data_table(tab, enriched[tab])])
             ELSE [acc EXCEPT !.events = @ \o <<E("description", tab), E("charts", tab)>>,
                              !.failed = TRUE]

\* the tabs drawn after load_and_process_data returned lp
render(lp) ==
    RenderTabs(lp.enriched, 1,
        [events |-> lp.events \o <<E("header", ""), E("navbar", ""), E("tabs", "")>>,
         shown |-> NoneTriple, failed |-> FALSE])

\* what run() leaves, lp being the outcome of load_and_process_data and t
\* that of the tabs: an exception anywhere is caught at the end and shown
\* with st.error and st.exception
finished(lp, t) ==
    IF lp.status = "stopped"
    THEN [events |-> lp.events, enriched |-> NoneTriple, shown |-> NoneTriple]
    ELSE IF lp.status = "raised"
    THEN [events |-> lp.events \o <<E("st.error", "exception")>>,
          enriched |-> NoneTriple, shown |-> NoneTriple]
    ELSE IF t.failed
    THEN [events |-> t.events \o <<E("st.error", "exception")>>,
          enriched |-> lp.enriched, shown |-> t.shown]
    ELSE [events |-> t.events \o <<E("footer", "")>>,
          enriched |-> lp.enriched, shown |-> t.shown]

\* run(): load and enrich, then header, navbar, tabs and footer
run(value, current_time) ==
    CHOOSE r \in
        UNION { { finished(lp, t) : t \in {render(lp)} } :
                  lp \in {load_and_process_data(value, current_time)} } : TRUE

\* the navbar with the refresh button is drawn by the run
ReachesNavbar(r) == \E i \in 1..Len(r.events) : r.events[i] = E("navbar", "")

\* ------------------------------------------------------------------------
\* Actions of the running application
\* ------------------------------------------------------------------------
\* reads of the files, counted up to ReadsCap
ReadsCap == 3
Bump(n) == IF n < ReadsCap THEN n + 1 ELSE n

ScriptRun_selecting(session, value, r) ==
    [session_state |->
        [initialize_session_state(session.session_state) EXCEPT
            !["filters"] = IF ReachesNavbar(r)
                           THEN DictSet(@, "Industry", s_Construction) ELSE @],
     loaded |-> value, events |-> r.events,
     enriched |-> r.enriched, shown |-> r.shown]

\* main(): ClayDashboard() builds DashboardPages, whose __init__ calls
\* initialize_session_state, and run(), whose outcome is r, redraws the
\* screen of the session
ScriptRun(session, value, r) ==
    [session_state |-> initialize_session_state(session.session_state),
     loaded |-> value, events |-> r.events,
     enriched |-> r.enriched, shown |-> r.shown]

SetSession_shared(states, s, new) ==
    [t \in DOMAIN states |->
        IF t = s THEN new
        ELSE [states[t] EXCEPT !.session_state = new.session_state]]

\* st.session_state and the screen belong to the session of the script run
SetSession(states, s, new) == [states EXCEPT ![s] = new]

OnScreen(s, event) == \E i \in 1..Len(sessions[s].events) : sessions[s].events[i] = event

SessionReady(s) == "filters" \in DOMAIN sessions[s].session_state

SessionFilters(s) == sessions[s].session_state["filters"]

\* the filter names and values the sessions use
SessionFilterNames == {"Industry"}
SessionFilterValues == {s_Construction}

\* pd.Timestamp.now() during the runs
RunClock == {[na |-> FALSE, month |-> 1, day |-> 10, hour |-> 0, minute |-> 0]}

\* a user interaction of session s (or its first connection) runs the script
Rerun(s) ==
    /\ \E current_time \in RunClock, l \in {load_data(cache, disk)} :
         \E r \in {run(l.value, current_time)} :
             /\ cache' = l.entry
             /\ reads' = IF l.read THEN Bump(reads) ELSE reads
             /\ sessions' = SetSession(sessions, s, ScriptRun(sessions[s], l.value, r))
    /\ actor' = [session |-> s, op |-> "run"]
    /\ UNCHANGED <<session_state, companies_df, decision_makers_df, last, raw, clean>>
    /\ UNCHANGED <<chart, disk>>

\* session s clicks the refresh button of its navbar: the script runs, and
\* when it reaches render_navbar_with_refresh st.button returns True, the
\* cache is cleared and st.rerun() runs the script again from the top
Refresh(s) ==
    /\ OnScreen(s, E("navbar", ""))
    /\ \E current_time \in RunClock, l \in {load_data(cache, disk)} :
         \E r \in {run(l.value, current_time)} :
             IF ReachesNavbar(r)
             THEN \E again \in {load_data(cache_clear, disk)} :
                    \E rr \in {run(again.value, current_time)} :
                      /\ cache' = again.entry
                      /\ reads' = IF again.read THEN Bump(0) ELSE 0
                      /\ sessions' = SetSession(sessions, s,
                             ScriptRun(ScriptRun(sessions[s], l.value, r),
                                       again.value, rr))
                      /\ actor' = [session |-> s, op |-> "refresh"]
             ELSE /\ cache' = l.entry
                  /\ reads' = IF l.read THEN Bump(reads) ELSE reads
                  /\ sessions' = SetSession(sessions, s,
                                     ScriptRun(sessions[s], l.value, r))
                  /\ actor' = [session |-> s, op |-> "run"]
    /\ UNCHANGED <<session_state, companies_df, decision_makers_df, last, raw, clean>>
    /\ UNCHANGED <<chart, disk>>

\* the files under data/ are replaced
FileChange ==
    /\ disk' \in Disks \ {disk}
    /\ actor' = [session |-> "", op |-> "file"]
    /\ UNCHANGED <<session_state, companies_df, decision_makers_df, last, raw, clean>>
    /\ UNCHANGED <<chart, cache, reads, sessions>>

\* an InteractiveManager call made in session s
SessionCall(s, op, new_session_state) ==
    /\ sessions' = SetSession(sessions, s,
                       [sessions[s] EXCEPT !.session_state = new_session_state])
    /\ actor' = [session |-> s, op |-> op]
    /\ UNCHANGED <<session_state, companies_df, decision_makers_df, last, raw, clean>>
    /\ UNCHANGED <<chart, disk, cache, reads>>

SessionAddFilter(s, filter_name, filter_value) ==
    /\ SessionReady(s)
    /\ SessionCall(s, "call",
           [sessions[s].session_state EXCEPT
               !["filters"] = add_filter(@, filter_name, filter_value)])

SessionRemoveFilter(s, filter_name) ==
    /\ SessionReady(s)
    /\ SessionCall(s, "call",
           [sessions[s].session_state EXCEPT
               !["filters"] = remove_filter(@, filter_name)])

SessionClearAllFilters(s) ==
    /\ SessionReady(s)
    /\ SessionCall(s, "call", clear_all_filters(sessions[s].session_state))

InitRun ==
    /\ session_state = EmptyDict
    /\ companies_df = <<>>
    /\ decision_makers_df = <<>>
    /\ last = NoCall
    /\ raw = NoTable
    /\ clean = NotRun
    /\ chart = NoChart
    /\ disk \in Disks
    /\ cache = EmptyCache
    /\ reads = 0
    /\ sessions = [s \in Sessions |-> NewSession]
    /\ actor = NoActor

NextRun ==
    \/ \E s \in Sessions : Rerun(s)
    \/ \E s \in Sessions : Refresh(s)
    \/ FileChange
    \/ \E s \in Sessions, n \in SessionFilterNames, v \in SessionFilterValues :
          SessionAddFilter(s, n, v)
    \/ \E s \in Sessions, n \in SessionFilterNames : SessionRemoveFilter(s, n)
    \/ \E s \in Sessions : SessionClearAllFilters(s)

SpecRun == InitRun /\ [][NextRun]_vars

\* the application as wired from run(): script runs, refreshes and changes
\* of the files; no InteractiveManager call besides initialize_session_state
NextWired ==
    \/ \E s \in Sessions : Rerun(s)
    \/ \E s \in Sessions : Refresh(s)
    \/ FileChange

SpecWired == InitRun /\ [][NextWired]_vars

\* ------------------------------------------------------------------------
\* Claims about the running application
\* ------------------------------------------------------------------------
\* what a run draws of the dashboard
Rendered == {"header", "navbar", "tabs", "description", "page", "charts", "table", "footer"}

Whole(value) == \A k \in Kinds : ~value[k].is_none

\* C14 as claimed: in no run of a session is a header, tab, chart or table
\* drawn and then followed by the error of a structural failure.
C14_NoPartialDashboard ==
    \A s \in Sessions :
        \A i, j \in 1..Len(sessions[s].events) :
            (i < j /\ sessions[s].events[j][1] = "st.error") =>
                sessions[s].events[i][1] \notin Rendered

\* C15: load_data_files returns three tables or (None, None, None), never a
\* mix, and (None, None, None) whenever one of the files is unreadable when
\* they are read; a run that got the failure calls no preprocess_* function.
C15_AtomicLoad ==
    [][ /\ cache'.filled => (Whole(cache'.value) \/ cache'.value = NoneTriple)
        /\ \A s \in Sessions :
              /\ Whole(sessions'[s].loaded) \/ sessions'[s].loaded = NoneTriple
              /\ (sessions'[s].loaded = NoneTriple) =>
                    \A i \in 1..Len(sessions'[s].events) :
                        sessions'[s].events[i][1] # "preprocess"
        /\ ( /\ actor'.op \in {"run", "refresh"}
             /\ ~cache.filled \/ actor'.op = "refresh"
             /\ \E k \in Kinds : ~disk[k].readable )
           => cache'.value = NoneTriple
      ]_vars

C15_Witness ==
    /\ ~disk["jobs"].readable
    /\ cache.filled /\ cache.value = NoneTriple
    /\ actor.op = "run"
    /\ sessions[actor.session].loaded = NoneTriple
    /\ sessions[actor.session].events =
          <<E("spinner", ""), E("load_data", ""), E("st.error", "load"), E("st.stop", "")>>

\* C16: between two clears of the cache the files are read at most once; a
\* run gets the memoised tables, read from the files only when there was no
\* entry; a refresh clears the entry and its rerun reads the files again.
C16_Memoised ==
    [][ LET s == actor'.session
        IN  /\ reads' <= 1
            /\ actor'.op = "run" =>
                  /\ cache'.filled
                  /\ sessions'[s].loaded = cache'.value
                  /\ cache.filled => (cache' = cache /\ reads' = reads)
                  /\ ~cache.filled =>
                        (cache'.value = load_data_files(disk) /\ reads' = reads + 1)
            /\ actor'.op = "refresh" =>
                  /\ cache'.filled
                  /\ cache'.value = load_data_files(disk)
                  /\ sessions'[s].loaded = cache'.value
                  /\ reads' = 1
      ]_vars

C16_Witness ==
    /\ actor.op = "refresh"
    /\ cache.value = load_data_files(disk)
    /\ sessions[actor.session].loaded = cache.value
    /\ \E t \in Sessions :
          /\ Whole(sessions[t].loaded)
          /\ sessions[t].loaded # cache.value

\* C18: a step of one session leaves the st.session_state of every other
\* session unchanged, and the session's own mapping is the result of its own
\* call on its own previous mapping.
C18_SessionPrivate ==
    [][ LET s == actor'.session
        IN  /\ \A t \in Sessions \ {s} :
                  sessions'[t].session_state = sessions[t].session_state
            /\ actor'.op \in {"run", "refresh"} =>
                  sessions'[s].session_state =
                      initialize_session_state(sessions[s].session_state)
            /\ actor'.op = "call" =>
                  \/ sessions'[s].session_state = clear_all_filters(sessions[s].session_state)
                  \/ \E n \in SessionFilterNames :
                        \/ sessions'[s].session_state["filters"] =
                              remove_filter(SessionFilters(s), n)
                        \/ \E v \in SessionFilterValues :
                              sessions'[s].session_state["filters"] =
                                  add_filter(SessionFilters(s), n, v)
      ]_vars

C18_Witness ==
    /\ \A s \in Sessions : SessionReady(s)
    /\ actor = [session |-> "B", op |-> "call"]
    /\ SessionFilters("A") = DictSet(EmptyDict, "Industry", s_Construction)
    /\ SessionFilters("B") = EmptyDict

\* the events of a run before its k-th
Before(s, k) == {sessions[s].events[i] : i \in 1..(k - 1)}

\* C20 as claimed: nothing of a page is drawn before the tables are loaded
\* and all three are enriched, and the companies table a page shows is the
\* output of the filter step (the session's active filters) applied to the
\* enriched companies table.
C20_FullPass ==
    \A s \in Sessions :
        /\ \A k \in 1..Len(sessions[s].events) :
              sessions[s].events[k][1] \in Rendered =>
                  {E("load_data", "")} \cup {E("preprocess", kind) : kind \in Kinds}
                      \subseteq Before(s, k)
        /\ OnScreen(s, E("table", "companies")) =>
              sessions[s].shown["companies"] =
                  data_table("companies",
                      Frame(sessions[s].enriched["companies"].columns,
                            apply_filters_to_dataframe(
                                sessions[s].enriched["companies"].rows,
                                CompanyFilterConfig, SessionFilters(s)).filtered_df))

\* the four data pages and the overview were drawn for session s
AllPagesOnScreen(s) ==
    /\ OnScreen(s, E("page", "overview"))
    /\ \A kind \in Kinds : OnScreen(s, E("table", kind))

\* C22: in the application as wired from run() the active-filter mapping of
\* every session stays empty and the five selected_* fields stay None,
\* whatever pages and charts the runs draw: no step adds, changes or
\* removes a filter.
C22_NoFeedback ==
    \A s \in Sessions :
        /\ (sessions[s].events # <<>>) => SessionReady(s)
        /\ SessionReady(s) =>
              /\ SessionFilters(s) = EmptyDict
              /\ \A k \in SelectedKeys : sessions[s].session_state[k] = None

\* C22 witness: a session refreshed, all its pages with their charts and
\* tables were drawn, and it has no filter
C22_Witness ==
    /\ actor.op = "refresh"
    /\ AllPagesOnScreen(actor.session)
    /\ OnScreen(actor.session, E("charts", "companies"))
    /\ SessionFilters(actor.session) = EmptyDict

\* C23: load_data_files returns (None, None, None) on a failure and that
\* value is memoised; from then on every step leaves the cache entry as it
\* is and reads no file, a run shows the load error and stops before the
\* navbar, and no step is a refresh, also when the files are readable again
\* and a navbar is still on the screen of a session.
C23_FailedLoadAbsorbing ==
    [][ /\ ( /\ actor'.op \in {"run", "refresh"}
             /\ ~cache.filled \/ actor'.op = "refresh"
             /\ load_data_files(disk) = NoneTriple )
           => (cache'.filled /\ cache'.value = NoneTriple)
        /\ (cache.filled /\ cache.value = NoneTriple) =>
              /\ cache' = cache
              /\ reads' = reads
              /\ actor'.op # "refresh"
              /\ actor'.op = "run" =>
                    sessions'[actor'.session].events =
                        <<E("spinner", ""), E("load_data", ""),
                          E("st.error", "load"), E("st.stop", "")>>
      ]_vars

\* C23 witness: the failure is memoised and the files, read once, are
\* readable again; both sessions have run since and show the load error
C23_Witness ==
    /\ cache.filled /\ cache.value = NoneTriple
    /\ disk = GoodDisk
    /\ reads = 1
    /\ actor.op = "run"
    /\ \A s \in Sessions : OnScreen(s, E("st.error", "load"))
    /\ \A s \in Sessions : ~OnScreen(s, E("navbar", ""))

\* C28: a run of the script and a refresh leave the filter mapping and the
\* selected_* fields of a session that has them as they are
\* (initialize_session_state creates missing keys only), and a step that
\* changes the filter mapping of a session is an add_filter, remove_filter
\* or clear_all_filters call of that session.
C28_FiltersSurvive ==
    [][ \A s \in Sessions :
            SessionReady(s) =>
                /\ SessionReady(s)'
                /\ (actor'.op \in {"run", "refresh", "file"}) =>
                      sessions'[s].session_state = sessions[s].session_state
                /\ (SessionFilters(s)' # SessionFilters(s)) =>
                      /\ actor' = [session |-> s, op |-> "call"]
                      /\ \/ SessionFilters(s)' = EmptyDict
                         \/ \E n \in SessionFilterNames, v \in SessionFilterValues :
                               SessionFilters(s)' = add_filter(SessionFilters(s), n, v)
                         \/ \E n \in SessionFilterNames :
                               SessionFilters(s)' = remove_filter(SessionFilters(s), n)
      ]_vars

\* C28 witness: a session with the filter Industry = Construction has
\* refreshed and still has it
C28_Witness ==
    /\ actor.op = "refresh"
    /\ SessionFilters(actor.session) = DictSet(EmptyDict, "Industry", s_Construction)
    /\ AllPagesOnScreen(actor.session)

====
